---- MODULE Spec2Model ----
(***************************************************************************)
(* gcloud-identity-token: the token lifecycle (auth.rs), the token cache   *)
(* (cache.rs), the redirect capture (browser.rs) and the memoized port     *)
(* (shared.rs) as a state machine.                                         *)
(*                                                                         *)
(* Option<T> is a sequence of length 0 (None) or 1 (Some).  Time is in     *)
(* seconds.  A stored blob is the JSON text of a SavedToken, modelled as   *)
(* the tuple of its four field values; text that does not parse is a       *)
(* tuple of another length.                                                *)
(***************************************************************************)
EXTENDS Integers, Sequences, FiniteSets

\* ------------------------------------------------------------- bounds

\* The clock stops advancing here.
MaxNow == 30
\* The provider issues at most this many distinct refresh tokens.
MaxIssue == 2

\* Steps by which the clock advances.
TickSet == {30}
\* expires_in values of a provider response (config.rs: i64).
ExpiresIn == {0, 90}
\* access_token values of a provider response.
AccessTokens == {"A1", "A2"}
\* The port the OS hands out for 127.0.0.1:0.
OnePort == {8001}
\* The ports the OS may hand out when the port matters.
Ports == {8001, 8002}
\* Processes that may call the library.
Procs == {1, 2}

\* ---------------------------------------------------------- constants

\* auth.rs:17  Duration::seconds(60)
Skew == 60

None == << >>
Some(x) == << x >>

\* ------------------------------------------------------ identity tokens

\* An identity token is a string, modelled as a sequence of symbols: "." is
\* the separator, every other symbol stands for a run of characters.
\*   h  base64url of {"alg":"none"}        s  a signature
\*   U  base64url of {"email":"u@e.com"}   V  base64url of {"email":"v@e.com"}
\*   N  base64url of {"sub":"1"}           J  base64url of text that is no JSON
\*   !  characters outside the base64url alphabet
Dot == "."
B64Alphabet == {"h", "s", "U", "V", "N", "J"}

TokU == <<"h", Dot, "U", Dot, "s">>
TokV == <<"h", Dot, "V", Dot, "s">>
TokUNoSig == <<"h", Dot, "U", Dot>>
TokTwoParts == <<"h", Dot, "U">>
TokFourParts == <<"h", Dot, "U", Dot, "s", Dot, "s">>
TokBadB64 == <<"h", Dot, "!", Dot, "s">>
TokBadJson == <<"h", Dot, "J", Dot, "s">>
TokNoEmail == <<"h", Dot, "N", Dot, "s">>
TokEmptyMiddle == <<"h", Dot, Dot, "s">>

\* Every identity token shape: well formed, and malformed in each way.
IdTokens ==
    {TokU, TokV, TokUNoSig, TokTwoParts, TokFourParts, TokBadB64, TokBadJson,
     TokNoEmail, TokEmptyMiddle}

\* The identity tokens the provider sends in the lifecycle specification.
RespIdTokens == {TokU, TokBadJson}

\* str::split('.'): the pieces between separators, empty pieces included.
RECURSIVE Split(_)
Split(s) ==
    IF \A i \in 1..Len(s) : s[i] # Dot
    THEN << s >>
    ELSE LET k == CHOOSE i \in 1..Len(s) :
                      s[i] = Dot /\ \A j \in 1..(i - 1) : s[j] # Dot
         IN  << SubSeq(s, 1, k - 1) >> \o Split(SubSeq(s, k + 1, Len(s)))

\* The text a base64url symbol decodes to.
Plain(c) ==
    CASE c = "h" -> "{\"alg\":\"none\"}"
      [] c = "U" -> "{\"email\":\"u@e.com\"}"
      [] c = "V" -> "{\"email\":\"v@e.com\"}"
      [] c = "N" -> "{\"sub\":\"1\"}"
      [] c = "J" -> "not json"
      [] OTHER   -> "sig"

\* URL_SAFE_NO_PAD.decode(seg).ok(): the decoded pieces, None on a character
\* outside the alphabet.
B64Decode(seg) ==
    IF \E i \in 1..Len(seg) : seg[i] \notin B64Alphabet
    THEN None
    ELSE Some([i \in 1..Len(seg) |-> Plain(seg[i])])

\* serde_json::from_slice::<IdTokenClaims>(payload).ok() then .email: the
\* payload must be one JSON object with a string field email.
ParseClaims(payload) ==
    IF Len(payload) # 1 THEN None
    ELSE CASE payload[1] = "{\"email\":\"u@e.com\"}" -> Some("u@e.com")
           [] payload[1] = "{\"email\":\"v@e.com\"}" -> Some("v@e.com")
           [] OTHER -> None

\* Mutant: the segment count is not checked.
extract_email_any_count(id_token) ==
    LET parts == Split(id_token) IN
    IF Len(parts) < 2 THEN None
    ELSE LET payload == B64Decode(parts[2]) IN
         IF payload = None THEN None ELSE ParseClaims(payload[1])

\* cache.rs extract_email_from_id_token
extract_email_from_id_token(id_token) ==
    LET parts == Split(id_token) IN
    IF Len(parts) # 3 THEN None
    ELSE LET payload == B64Decode(parts[2]) IN
         IF payload = None THEN None ELSE ParseClaims(payload[1])

\* The keyring user names that can occur.
Keys == {"default", "u@e.com", "v@e.com"}

\* Mutant: the hint is not derived from the token.
save_user_fixed(id_token) == "default"

\* save_token: extract_email_from_id_token(..).unwrap_or_else(|| "default")
save_user(id_token) ==
    LET e == extract_email_from_id_token(id_token) IN
    IF e = None THEN "default" ELSE e[1]

\* ------------------------------------------------------------ encoding

SavedToken(rt, at, id, exp) ==
    [refresh_token |-> rt, access_token |-> at, id_token |-> id,
     token_expiry |-> exp]

\* serde_json::to_string / to_string_pretty of a SavedToken.
to_string(token) ==
    << token.refresh_token, token.access_token, token.id_token,
       token.token_expiry >>

\* Text that is no SavedToken.
Garbage == << >>

\* Mutant: text that does not parse yields an empty SavedToken.
from_str_lenient(text) ==
    IF Len(text) = 4
    THEN Some(SavedToken(text[1], text[2], text[3], text[4]))
    ELSE Some(SavedToken(0, "", << >>, 0))

\* serde_json::from_str::<SavedToken>(text).ok()
from_str(text) ==
    IF Len(text) = 4
    THEN Some(SavedToken(text[1], text[2], text[3], text[4]))
    ELSE None

\* ---------------------------------------------------------------- state

VARIABLES
    override,   \* GCLOUD_IDENTITY_TOKEN_PATH is set
    file,       \* Option<text>: the file at the override path
    hint,       \* Option<user>: the file  ~/.cache/<pkg>.email
    keyring,    \* user -> Option<text>: the entries of service <pkg>
    readFault,  \* the store cannot be read (keyring locked, file unreadable)
    now,        \* Utc::now()
    issued,     \* the last refresh token the provider issued (0: none yet)
    active,     \* the processes that run
    ephemeral,  \* the ports the OS may hand out for 127.0.0.1:0
    pc,         \* per process: where its call stands
    path,       \* per process: the call it runs and the branch it took
    t0,         \* per process: Utc::now() when the cached token was checked
    saved,      \* per process: Option<SavedToken>, what load returned
    res,        \* per process: Option<TokenResponse>
    rec,        \* per process: Option<SavedToken>, the argument of save_token
    out,        \* per process: Option<TokenOutput>
    ret,        \* per process: "none" (running), "ok", "err"
    calls,      \* per process: what the current call has done so far
    port,       \* per process: the OnceLock PORT
    redirect_uri, \* per process: Option<port>, the port in perform_login's
                \* redirect_uri (authorization URL and code exchange)
    listening,  \* per process: Option<port>, the port the capture binds
    returned,   \* per process: the values get_or_init_port has returned
    inbound,    \* the requests that may arrive at the capture listener
    request,    \* per process: Option<request>, the one the capture received
    code,       \* per process: Option<code>, what capture_auth_code returned
    form,       \* per process: Option<form>, what the code exchange posted
    start,      \* per process: what the store held when the call started
    before,     \* per process: what a load returned when the call started
    writeFailed, \* a write of save_token has failed at some time
    dirty,      \* per process: the store changed since the call started
    stale,      \* per process: the store changed since the call returned
    prev        \* per process: the call before, if it returned Ok and the
                \* store did not change until the current call started

storeVars == << override, file, hint, keyring, readFault >>
envVars == << now, issued, active, ephemeral >>
procVars == << pc, path, t0, saved, res, rec, out, ret, calls, port >>
portVars == << redirect_uri, listening, returned, inbound, request, code,
              form >>
histVars == << start, before, dirty, stale, prev, writeFailed >>
vars == << storeVars, envVars, procVars, portVars, histVars >>

\* The store as one value.
Store == [override |-> override, file |-> file, hint |-> hint,
          keyring |-> keyring, readFault |-> readFault]

NoCalls == [refresh |-> 0, browser |-> 0, capture |-> 0, exchange |-> 0,
            hint_writes |-> 0, token_writes |-> 0]

EmptyKeyring == [k \in Keys |-> None]

Quiet(p) == pc[p] \in {"idle", "done"}
AllIdle == \A p \in Procs : pc[p] = "idle"

\* ------------------------------------------------------- cache.rs, load

\* Mutant: the documented key of load, the fixed user "default".
load_user_default == "default"

\* load_cached_token: fs::read_to_string(email_hint_path())
\*                        .unwrap_or_else(|_| "default")
load_user == IF hint = None THEN "default" ELSE hint[1]

\* load_cached_token
load_cached_token ==
    IF override
    THEN IF readFault \/ file = None THEN None ELSE from_str(file[1])
    ELSE IF readFault \/ keyring[load_user] = None
         THEN None
         ELSE from_str(keyring[load_user][1])

\* ------------------------------------------------------- call bookkeeping

\* The history flags after a step in which the calls of `begun` start and the
\* calls of `ended` return.
Mark(begun, ended) ==
    /\ dirty' = [q \in Procs |->
                   IF q \in begun THEN FALSE ELSE dirty[q] \/ Store' # Store]
    /\ stale' = [q \in Procs |->
                   IF q \in ended THEN FALSE ELSE stale[q] \/ Store' # Store]

\* The label of the call of p that is ending now, for the call after it.
Label(p) ==
    IF stale[p] THEN "none"
    ELSE IF ret[p] # "ok"
    THEN (IF ret[p] = "err" /\ path[p] = "refresh" /\ res[p] = None
          THEN "refresh_failed" ELSE "none")
    ELSE CASE path[p] = "login" /\ rec[p] # None /\ start[p] = "empty" ->
                "first_login_saved"
           [] path[p] = "login" /\ rec[p] # None -> "login_saved"
           [] path[p] = "login" /\ rec[p] = None -> "login_unsaved"
           [] OTHER -> path[p]

\* What a call finds in the store: the store is unreadable ("fault"), holds
\* nothing at all ("empty"), has no entry under the hinted user or at the
\* override path ("missing"), an entry that is no SavedToken ("corrupt"), or
\* a SavedToken ("present").
StartKind ==
    LET e == IF override THEN file
             ELSE keyring[IF hint = None THEN "default" ELSE hint[1]]
    IN  IF readFault THEN "fault"
        ELSE IF e # None THEN (IF Len(e[1]) = 4 THEN "present" ELSE "corrupt")
        ELSE IF override \/ (hint = None /\ keyring = EmptyKeyring)
        THEN "empty"
        ELSE "missing"

\* A call of process p starts.
Begin(p) ==
    /\ redirect_uri' = [redirect_uri EXCEPT ![p] = None]
    /\ listening' = [listening EXCEPT ![p] = None]
    /\ request' = [request EXCEPT ![p] = None]
    /\ code' = [code EXCEPT ![p] = None]
    /\ form' = [form EXCEPT ![p] = None]
    /\ UNCHANGED << returned, inbound >>
    /\ prev' = [prev EXCEPT ![p] = Label(p)]
    /\ start' = [start EXCEPT ![p] = StartKind]
    /\ before' = [before EXCEPT ![p] = load_cached_token]
    /\ t0' = [t0 EXCEPT ![p] = now]
    /\ calls' = [calls EXCEPT ![p] = NoCalls]
    /\ UNCHANGED writeFailed

\* The call of process p returns r with output o.
Finish(p, r, o) ==
    /\ pc' = [pc EXCEPT ![p] = "done"]
    /\ ret' = [ret EXCEPT ![p] = r]
    /\ out' = [out EXCEPT ![p] = o]

\* The call of process p takes the branch `at`.
Enter(p, at) ==
    /\ pc' = [pc EXCEPT ![p] = at]
    /\ ret' = [ret EXCEPT ![p] = "none"]
    /\ out' = [out EXCEPT ![p] = None]

\* The call of process p goes on at `at`.
Goto(p, at) ==
    /\ pc' = [pc EXCEPT ![p] = at]
    /\ UNCHANGED << ret, out >>

Count(p, what) == calls' = [calls EXCEPT ![p][what] = @ + 1]

\* -------------------------------------------------------------- cache.rs

\* delete_token: the entry of the hinted user is removed; a missing entry, or
\* a failing credential store, is an error.  The override path is not read.
DeleteToken(p) ==
    /\ p \in active
    /\ Quiet(p)
    /\ Begin(p)
    /\ path' = [path EXCEPT ![p] = "delete"]
    /\ saved' = [saved EXCEPT ![p] = None]
    /\ res' = [res EXCEPT ![p] = None]
    /\ rec' = [rec EXCEPT ![p] = None]
    /\ UNCHANGED << override, file, hint, readFault, envVars, port >>
    /\ \E platform_ok \in BOOLEAN :
         IF platform_ok /\ keyring[load_user] # None
         THEN /\ keyring' = [keyring EXCEPT ![load_user] = None]
              /\ Finish(p, "ok", None)
         ELSE /\ keyring' = keyring
              /\ Finish(p, "err", None)
    /\ Mark({p}, {p})

\* config.rs TokenOutput
TokenOutput(at, id, exp) ==
    [access_token |-> at, id_token |-> id, token_expiry |-> exp]

\* auth.rs token_output_from_saved
token_output_from_saved(s) ==
    TokenOutput(s.access_token, s.id_token, s.token_expiry)

\* What the caller of save_token returns once save_token returned Ok:
\* refresh_token returns token_output_from_saved(updated), perform_login the
\* TokenOutput of the response and expires_at, a direct caller nothing.
AfterSave(p) ==
    CASE path[p] = "refresh" -> Some(token_output_from_saved(rec[p][1]))
      [] path[p] = "login" ->
           Some(TokenOutput(res[p][1].access_token, res[p][1].id_token,
                            rec[p][1].token_expiry))
      [] OTHER -> None

\* Mutant: a failed write is ignored and the caller goes on with the tokens.
save_failed_ignored(p) == << "ok", AfterSave(p) >>

\* `save_token(&updated)?` / `save_token(&saved)?`: the error of the write is
\* the result of the call and no TokenOutput is built.
save_failed(p) == << "err", None >>

\* save_token with the override path: the file is written.
SaveTokenFile(p) ==
    /\ pc[p] = "save"
    /\ UNCHANGED portVars
    /\ override
    /\ UNCHANGED << override, hint, keyring, readFault, envVars, path, t0,
                    saved, res, rec, port, start, before, prev >>
    /\ \E io_ok \in BOOLEAN :
         IF io_ok
         THEN /\ UNCHANGED writeFailed
              /\ file' = Some(to_string(rec[p][1]))
              /\ Count(p, "token_writes")
              /\ Finish(p, "ok", AfterSave(p))
         ELSE /\ UNCHANGED << file, calls >>
              /\ writeFailed' = TRUE
              /\ Finish(p, save_failed(p)[1], save_failed(p)[2])
    /\ Mark({}, {p})

\* save_token without the override path, first half: the hint file is written.
SaveTokenHint(p) ==
    /\ pc[p] = "save"
    /\ UNCHANGED portVars
    /\ ~override
    /\ UNCHANGED << override, file, keyring, readFault, envVars, path, t0,
                    saved, res, rec, port, start, before, prev >>
    /\ \E io_ok \in BOOLEAN :
         IF io_ok
         THEN /\ UNCHANGED writeFailed
              /\ hint' = Some(save_user(rec[p][1].id_token))
              /\ Count(p, "hint_writes")
              /\ Goto(p, "entry")
              /\ Mark({}, {})
         ELSE /\ UNCHANGED << hint, calls >>
              /\ writeFailed' = TRUE
              /\ Finish(p, save_failed(p)[1], save_failed(p)[2])
              /\ Mark({}, {p})

\* save_token without the override path, second half: the keyring entry of
\* the token's user is set.
SaveTokenEntry(p) ==
    /\ pc[p] = "entry"
    /\ UNCHANGED portVars
    /\ UNCHANGED << override, file, hint, readFault, envVars, path, t0,
                    saved, res, rec, port, start, before, prev >>
    /\ \E io_ok \in BOOLEAN :
         IF io_ok
         THEN /\ UNCHANGED writeFailed
              /\ keyring' = [keyring EXCEPT
                               ![save_user(rec[p][1].id_token)] =
                                   Some(to_string(rec[p][1]))]
              /\ Count(p, "token_writes")
              /\ Finish(p, "ok", AfterSave(p))
         ELSE /\ UNCHANGED << keyring, calls >>
              /\ writeFailed' = TRUE
              /\ Finish(p, save_failed(p)[1], save_failed(p)[2])
    /\ Mark({}, {p})

\* --------------------------------------------------------------- auth.rs

\* What the token endpoint can answer: a rotated refresh token is a new one.
Responses ==
    [access_token : AccessTokens,
     id_token : RespIdTokens,
     refresh_token : {None} \cup
         (IF issued < MaxIssue THEN {Some(issued + 1)} ELSE {}),
     expires_in : ExpiresIn]

Issue(r) ==
    issued' = IF r.refresh_token = None THEN issued ELSE r.refresh_token[1]

\* Mutant: a token expiring exactly at now + 60s counts as valid.
still_valid_inclusive(s, t) == s.token_expiry >= t + Skew

\* Mutant: the comparison is turned around.
still_valid_inverted(s, t) == s.token_expiry < t + Skew

\* get_token: saved.token_expiry > Utc::now() + Duration::seconds(60)
still_valid(s, t) == s.token_expiry > t + Skew

\* get_token: the cache is read and the branch is chosen; a cache hit returns.
GetToken(p) ==
    /\ p \in active
    /\ Quiet(p)
    /\ Begin(p)
    /\ saved' = [saved EXCEPT ![p] = load_cached_token]
    /\ res' = [res EXCEPT ![p] = None]
    /\ rec' = [rec EXCEPT ![p] = None]
    /\ UNCHANGED << storeVars, now, issued, active, ephemeral, port >>
    /\ IF load_cached_token = None
       THEN /\ path' = [path EXCEPT ![p] = "login"]
            /\ Enter(p, "login")
            /\ Mark({p}, {})
       ELSE IF still_valid(load_cached_token[1], now)
       THEN /\ path' = [path EXCEPT ![p] = "cache"]
            /\ Finish(p, "ok", Some(token_output_from_saved(load_cached_token[1])))
            /\ Mark({p}, {p})
       ELSE /\ path' = [path EXCEPT ![p] = "refresh"]
            /\ Enter(p, "refresh")
            /\ Mark({p}, {})

\* Mutant: the response's refresh token is dropped, the old one is kept.
next_refresh_token_keep_old(r, s) == s.refresh_token

\* refresh_token: res.refresh_token.unwrap_or_else(|| saved.refresh_token)
next_refresh_token(r, s) ==
    IF r.refresh_token = None THEN s.refresh_token ELSE r.refresh_token[1]

\* refresh_token: the SavedToken built from the response.
updated(r, s, t) ==
    SavedToken(next_refresh_token(r, s), r.access_token, r.id_token,
               t + r.expires_in)

\* Mutant: a failed refresh hands out the cached token.
refresh_failed_stale(s) == << "ok", Some(token_output_from_saved(s)) >>

\* refresh_token: `.send().await?.json().await?`, the error is returned and
\* no TokenOutput.
refresh_failed(s) == << "err", None >>

\* refresh_token up to save_token: one POST to the token endpoint; a failed
\* call or an unparsable answer returns the error.
RefreshExchange(p) ==
    /\ pc[p] = "refresh"
    /\ UNCHANGED portVars
    /\ Count(p, "refresh")
    /\ UNCHANGED << storeVars, now, active, ephemeral, path, t0, saved, port,
                    start, before, prev, writeFailed >>
    /\ \/ /\ Finish(p, refresh_failed(saved[p][1])[1],
                    refresh_failed(saved[p][1])[2])
          /\ UNCHANGED << issued, res, rec >>
          /\ Mark({}, {p})
       \/ \E r \in Responses :
            /\ Issue(r)
            /\ res' = [res EXCEPT ![p] = Some(r)]
            /\ rec' = [rec EXCEPT ![p] = Some(updated(r, saved[p][1], now))]
            /\ Goto(p, "save")
            /\ Mark({}, {})

\* Mutant: every call binds port 0 anew.
get_or_init_port_rebind(p, n) == Some(n)

\* shared.rs get_or_init_port: the first call binds port 0 and keeps the port.
get_or_init_port(p, n) == IF port[p] = None THEN Some(n) ELSE port[p]

\* Another thread of process p calls get_or_init_port, at any time.
CallPort(p) ==
    /\ p \in active
    /\ \E n \in ephemeral : port' = [port EXCEPT ![p] = get_or_init_port(p, n)]
    /\ returned' = [returned EXCEPT ![p] = @ \cup {port'[p][1]}]
    /\ UNCHANGED << storeVars, envVars, pc, path, t0, saved, res, rec, out,
                    ret, calls, redirect_uri, listening, inbound, request,
                    code, form, histVars >>

\* perform_login up to capture_auth_code: the port, the authorization URL, and
\* the browser (or the printed URL).
PerformLoginOpen(p) ==
    /\ pc[p] = "login"
    /\ \E n \in ephemeral : port' = [port EXCEPT ![p] = get_or_init_port(p, n)]
    /\ redirect_uri' = [redirect_uri EXCEPT ![p] = port'[p]]
    /\ returned' = [returned EXCEPT ![p] = @ \cup {port'[p][1]}]
    /\ UNCHANGED << listening, inbound, request, code, form >>
    /\ Count(p, "browser")
    /\ Goto(p, "capture")
    /\ UNCHANGED << storeVars, envVars, path, t0, saved, res, rec, start, before,
                    prev, writeFailed >>
    /\ Mark({}, {})

\* The URL of a request is a string, modelled as a sequence of symbols: "?"
\* and "&" are the separators, "/" is the path, every other symbol is one
\* name=value piece of the query.
Urls ==
    { <<"/", "?", "code=c1">>,
      <<"/">>,
      <<"/", "?", "error=denied">>,
      <<"/", "?", "state=s", "&", "code=c2">>,
      <<"/", "?", "code=c1", "&", "code=c2">>,
      <<"/", "?", "state=s", "?", "code=c1">>,
      <<"/", "?", "code=">> }

\* The requests that can arrive: the URL, and whether receiving it or
\* answering it fails.
Requests ==
    { r \in [url : Urls, io : {"ok", "recv_error", "respond_error"}] :
        r.io = "recv_error" => r.url = <<"/">> }

\* The requests of the lifecycle specification: one of each outcome.
SomeRequests ==
    { r \in Requests : r.url \in {<<"/">>, <<"/", "?", "code=c1">>} }

\* str::split(sep): the pieces between separators, empty pieces included.
RECURSIVE SplitOn(_, _)
SplitOn(s, sep) ==
    IF \A i \in 1..Len(s) : s[i] # sep
    THEN << s >>
    ELSE LET k == CHOOSE i \in 1..Len(s) :
                      s[i] = sep /\ \A j \in 1..(i - 1) : s[j] # sep
         IN  << SubSeq(s, 1, k - 1) >> \o SplitOn(SubSeq(s, k + 1, Len(s)), sep)

\* capture_auth_code: request.url().split('?').nth(1).unwrap_or("")
query_of(url) ==
    LET parts == SplitOn(url, "?") IN
    IF Len(parts) < 2 THEN << >> ELSE parts[2]

\* The name and the value of one name=value piece.
Param(piece) ==
    CASE piece = "code=c1" -> << "code", "c1" >>
      [] piece = "code=c2" -> << "code", "c2" >>
      [] piece = "code=" -> << "code", "" >>
      [] piece = "state=s" -> << "state", "s" >>
      [] piece = "error=denied" -> << "error", "denied" >>
      [] OTHER -> << piece, "" >>

\* form_urlencoded::parse(query).collect::<HashMap>().get("code"): of several
\* code parameters the last one is kept.
code_param(query) ==
    LET pieces == SplitOn(query, "&")
        at == { i \in 1..Len(pieces) :
                  Len(pieces[i]) = 1 /\ Param(pieces[i][1])[1] = "code" }
    IN  IF at = {} THEN None
        ELSE LET last == CHOOSE i \in at : \A j \in at : j <= i
             IN  Some(Param(pieces[last][1])[2])

\* Mutant: a request without a code parameter yields the empty code.
capture_auth_code_lenient(r) ==
    IF r.io # "ok" THEN None
    ELSE IF code_param(query_of(r.url)) = None THEN Some("")
    ELSE code_param(query_of(r.url))

\* capture_auth_code as a function of the request received: the code, or
\* None for an error (the request is not received, it has no code parameter,
\* or the answer cannot be sent).
capture_auth_code(r) ==
    IF r.io = "recv_error" THEN None
    ELSE IF code_param(query_of(r.url)) = None THEN None
    ELSE IF r.io = "respond_error" THEN None
    ELSE code_param(query_of(r.url))

\* Mutant: the capture gives up without a request.
CaptureAuthCodeTimeout(p) ==
    /\ pc[p] = "capture"
    /\ Count(p, "capture")
    /\ UNCHANGED << storeVars, envVars, path, t0, saved, res, rec, port,
                    portVars, start, before, prev, writeFailed >>
    /\ Finish(p, "err", None)
    /\ Mark({}, {p})

\* capture_auth_code: the listener binds the port, one request is received;
\* without ?code=, or when the answer cannot be sent, the capture fails.
CaptureAuthCode(p) ==
    /\ pc[p] = "capture"
    /\ Count(p, "capture")
    /\ \E n \in ephemeral : port' = [port EXCEPT ![p] = get_or_init_port(p, n)]
    /\ listening' = [listening EXCEPT ![p] = port'[p]]
    /\ returned' = [returned EXCEPT ![p] = @ \cup {port'[p][1]}]
    /\ UNCHANGED << redirect_uri, inbound, form >>
    /\ UNCHANGED << storeVars, envVars, path, t0, saved, res, rec,
                    start, before, prev, writeFailed >>
    /\ \E r \in inbound :
         /\ request' = [request EXCEPT ![p] = Some(r)]
         /\ code' = [code EXCEPT ![p] = capture_auth_code(r)]
         /\ IF capture_auth_code(r) # None
            THEN Goto(p, "exchange") /\ Mark({}, {})
            ELSE Finish(p, "err", None) /\ Mark({}, {p})

\* Mutant: a login response is persisted whether or not it carries a refresh
\* token (an absent one is written as 0).
login_record_always(r, t) ==
    Some(SavedToken(IF r.refresh_token = None THEN 0 ELSE r.refresh_token[1],
                    r.access_token, r.id_token, t + r.expires_in))

\* Mutant: expires_in is stored as if it were the expiry.
login_record_relative(r, t) ==
    IF r.refresh_token = None
    THEN None
    ELSE Some(SavedToken(r.refresh_token[1], r.access_token, r.id_token,
                         r.expires_in))

\* perform_login: the SavedToken to persist, if the response has a refresh
\* token.
login_record(r, t) ==
    IF r.refresh_token = None
    THEN None
    ELSE Some(SavedToken(r.refresh_token[1], r.access_token, r.id_token,
                         t + r.expires_in))

\* perform_login after the capture: the code exchange; without a refresh
\* token the output is returned and nothing is saved.
CodeExchange(p) ==
    /\ pc[p] = "exchange"
    /\ form' = [form EXCEPT ![p] =
                   Some([code |-> code[p][1],
                         redirect_uri |-> redirect_uri[p][1]])]
    /\ UNCHANGED << redirect_uri, listening, returned, inbound, request,
                    code >>
    /\ Count(p, "exchange")
    /\ UNCHANGED << storeVars, now, active, ephemeral, path, t0, saved, port,
                    start, before, prev, writeFailed >>
    /\ \/ /\ Finish(p, "err", None)
          /\ UNCHANGED << issued, res, rec >>
          /\ Mark({}, {p})
       \/ \E r \in Responses :
            /\ Issue(r)
            /\ res' = [res EXCEPT ![p] = Some(r)]
            /\ rec' = [rec EXCEPT ![p] = login_record(r, now)]
            /\ IF login_record(r, now) = None
               THEN /\ Finish(p, "ok", Some(TokenOutput(r.access_token, r.id_token,
                                                        now + r.expires_in)))
                    /\ Mark({}, {p})
               ELSE /\ Goto(p, "save")
                    /\ Mark({}, {})

\* ------------------------------------------------ direct calls of the store

\* The SavedTokens a caller of the store may hold: one of every identity
\* token shape, and a second one of the user u@e.com.
SavedTokens ==
    { SavedToken(1, "A1", id, 90) : id \in IdTokens }
        \cup { SavedToken(2, "A2", TokU, 0) }

\* A caller calls save_token(t).
CallSaveToken(p) ==
    /\ p \in active
    /\ pc[p] = "idle"
    /\ Begin(p)
    /\ \E t \in SavedTokens : rec' = [rec EXCEPT ![p] = Some(t)]
    /\ path' = [path EXCEPT ![p] = "save"]
    /\ Enter(p, "save")
    /\ saved' = [saved EXCEPT ![p] = None]
    /\ res' = [res EXCEPT ![p] = None]
    /\ UNCHANGED << storeVars, now, issued, active, ephemeral, port >>
    /\ Mark({p}, {})

\* The call of process p is over: its frame is dropped.
Return(p) ==
    /\ pc[p] = "done"
    /\ pc' = [pc EXCEPT ![p] = "idle"]
    /\ path' = [path EXCEPT ![p] = "none"]
    /\ t0' = [t0 EXCEPT ![p] = 0]
    /\ saved' = [saved EXCEPT ![p] = None]
    /\ res' = [res EXCEPT ![p] = None]
    /\ rec' = [rec EXCEPT ![p] = None]
    /\ out' = [out EXCEPT ![p] = None]
    /\ ret' = [ret EXCEPT ![p] = "none"]
    /\ calls' = [calls EXCEPT ![p] = NoCalls]
    /\ start' = [start EXCEPT ![p] = "none"]
    /\ before' = [before EXCEPT ![p] = None]
    /\ dirty' = [dirty EXCEPT ![p] = FALSE]
    /\ stale' = [stale EXCEPT ![p] = FALSE]
    /\ prev' = [prev EXCEPT ![p] = "none"]
    /\ redirect_uri' = [redirect_uri EXCEPT ![p] = None]
    /\ listening' = [listening EXCEPT ![p] = None]
    /\ request' = [request EXCEPT ![p] = None]
    /\ code' = [code EXCEPT ![p] = None]
    /\ form' = [form EXCEPT ![p] = None]
    /\ UNCHANGED << storeVars, envVars, port, returned, inbound, writeFailed >>

\* A caller calls load_cached_token().
CallLoad(p) ==
    /\ p \in active
    /\ Quiet(p)
    /\ Begin(p)
    /\ saved' = [saved EXCEPT ![p] = load_cached_token]
    /\ path' = [path EXCEPT ![p] = "load"]
    /\ Finish(p, "ok", None)
    /\ res' = [res EXCEPT ![p] = None]
    /\ rec' = [rec EXCEPT ![p] = None]
    /\ UNCHANGED << storeVars, now, issued, active, ephemeral, port >>
    /\ Mark({p}, {p})

\* ----------------------------------------------------------- environment

\* Time passes.
Tick ==
    /\ UNCHANGED portVars
    /\ \E d \in TickSet : now + d <= MaxNow /\ now' = now + d
    /\ UNCHANGED << storeVars, issued, active, ephemeral, procVars, histVars >>

\* The user sets or unsets GCLOUD_IDENTITY_TOKEN_PATH between calls.
SetOverride ==
    /\ UNCHANGED portVars
    /\ AllIdle
    /\ override' = ~override
    /\ UNCHANGED << file, hint, keyring, readFault, now, issued, active, ephemeral,
                    procVars, start, before, prev, writeFailed >>
    /\ Mark({}, {})

\* The store becomes unreadable, or readable again, between calls.
ToggleFault ==
    /\ UNCHANGED portVars
    /\ AllIdle
    /\ readFault' = ~readFault
    /\ UNCHANGED << override, file, hint, keyring, now, issued, active, ephemeral,
                    procVars, start, before, prev, writeFailed >>
    /\ Mark({}, {})

\* A stored entry is damaged between calls: it no longer decodes.
Corrupt ==
    /\ UNCHANGED portVars
    /\ AllIdle
    /\ \/ /\ file \notin {None, Some(Garbage)}
          /\ file' = Some(Garbage)
          /\ keyring' = keyring
       \/ /\ \E k \in Keys :
               /\ keyring[k] \notin {None, Some(Garbage)}
               /\ keyring' = [keyring EXCEPT ![k] = Some(Garbage)]
          /\ file' = file
    /\ UNCHANGED << override, hint, readFault, now, issued, active, ephemeral, procVars,
                    start, before, prev, writeFailed >>
    /\ Mark({}, {})

\* --------------------------------------------------------- specifications

\* Nothing has been saved and the provider has issued nothing.
InitStore ==
    /\ override \in BOOLEAN
    /\ file = None
    /\ hint = None
    /\ keyring = EmptyKeyring
    /\ issued = 0

\* No call is running.
InitCalls(procs, ports, requests) ==
    /\ readFault = FALSE
    /\ now = 0
    /\ active = procs
    /\ ephemeral = ports
    /\ pc = [p \in Procs |-> "idle"]
    /\ path = [p \in Procs |-> "none"]
    /\ t0 = [p \in Procs |-> 0]
    /\ saved = [p \in Procs |-> None]
    /\ res = [p \in Procs |-> None]
    /\ rec = [p \in Procs |-> None]
    /\ out = [p \in Procs |-> None]
    /\ ret = [p \in Procs |-> "none"]
    /\ calls = [p \in Procs |-> NoCalls]
    /\ port = [p \in Procs |-> None]
    /\ redirect_uri = [p \in Procs |-> None]
    /\ listening = [p \in Procs |-> None]
    /\ returned = [p \in Procs |-> {}]
    /\ inbound = requests
    /\ request = [p \in Procs |-> None]
    /\ code = [p \in Procs |-> None]
    /\ form = [p \in Procs |-> None]
    /\ start = [p \in Procs |-> "none"]
    /\ before = [p \in Procs |-> None]
    /\ writeFailed = FALSE
    /\ dirty = [p \in Procs |-> FALSE]
    /\ stale = [p \in Procs |-> FALSE]
    /\ prev = [p \in Procs |-> "none"]

InitWith(procs, ports, requests) ==
    InitStore /\ InitCalls(procs, ports, requests)

\* One process calls get_token again and again in one environment; the clock
\* advances at any time, the store is deleted, damaged or made unreadable
\* between calls.
Init == InitWith({1}, OnePort, SomeRequests)

Next ==
    \/ \E p \in Procs : GetToken(p)
    \/ \E p \in Procs : RefreshExchange(p)
    \/ \E p \in Procs : PerformLoginOpen(p)
    \/ \E p \in Procs : CaptureAuthCode(p)
    \/ \E p \in Procs : CodeExchange(p)
    \/ \E p \in Procs : SaveTokenFile(p)
    \/ \E p \in Procs : SaveTokenHint(p)
    \/ \E p \in Procs : SaveTokenEntry(p)
    \/ \E p \in Procs : DeleteToken(p)
    \/ \E p \in Procs : Return(p)
    \/ Tick
    \/ ToggleFault
    \/ Corrupt

Spec == Init /\ [][Next]_vars

\* The store by itself: a caller saves, loads and deletes, and the user sets
\* and unsets the override path between calls.
NextStore ==
    \/ \E p \in Procs : CallSaveToken(p)
    \/ \E p \in Procs : CallLoad(p)
    \/ \E p \in Procs : SaveTokenFile(p)
    \/ \E p \in Procs : SaveTokenHint(p)
    \/ \E p \in Procs : SaveTokenEntry(p)
    \/ \E p \in Procs : DeleteToken(p)
    \/ \E p \in Procs : Return(p)
    \/ SetOverride

SpecStore == Init /\ [][NextStore]_vars

\* The login in detail: one process logs in and refreshes while other threads
\* of it ask for the port; the OS may hand out either of two ports and any
\* request may arrive at the listener.
InitPort == InitWith({1}, Ports, Requests)

NextPort ==
    \/ \E p \in Procs : GetToken(p)
    \/ \E p \in Procs : RefreshExchange(p)
    \/ \E p \in Procs : PerformLoginOpen(p)
    \/ \E p \in Procs : CaptureAuthCode(p)
    \/ \E p \in Procs : CodeExchange(p)
    \/ \E p \in Procs : SaveTokenFile(p)
    \/ \E p \in Procs : SaveTokenHint(p)
    \/ \E p \in Procs : SaveTokenEntry(p)
    \/ \E p \in Procs : Return(p)
    \/ \E p \in Procs : CallPort(p)

SpecPort == InitPort /\ [][NextPort]_vars

\* Termination: one process calls get_token again and again.  A step of the
\* library that is ready is taken (the flow runs on, and the token endpoint
\* replies, with a response or an error); the arrival of a request at the
\* listener is up to the user and is not assumed.
NextLive ==
    \/ \E p \in Procs : GetToken(p)
    \/ \E p \in Procs : RefreshExchange(p)
    \/ \E p \in Procs : PerformLoginOpen(p)
    \/ \E p \in Procs : CaptureAuthCode(p)
    \/ \E p \in Procs : CodeExchange(p)
    \/ \E p \in Procs : SaveTokenFile(p)
    \/ \E p \in Procs : SaveTokenHint(p)
    \/ \E p \in Procs : SaveTokenEntry(p)
    \/ \E p \in Procs : Return(p)

Fairness ==
    \A p \in Procs :
        /\ WF_vars(RefreshExchange(p))
        /\ WF_vars(PerformLoginOpen(p))
        /\ WF_vars(CodeExchange(p))
        /\ WF_vars(SaveTokenFile(p))
        /\ WF_vars(SaveTokenHint(p))
        /\ WF_vars(SaveTokenEntry(p))

SpecLive == Init /\ [][NextLive]_vars /\ Fairness

\* The record an earlier login has left in the store, expired by now.
Expired == SavedToken(1, "A1", TokU, 0)

\* Two processes call get_token once each against the same store, which
\* holds an expired record; each step of one is interleaved with the steps of
\* the other.
InitRace ==
    /\ override \in BOOLEAN
    /\ file = IF override THEN Some(to_string(Expired)) ELSE None
    /\ hint = IF override THEN None ELSE Some(save_user(Expired.id_token))
    /\ keyring = IF override THEN EmptyKeyring
                 ELSE [EmptyKeyring EXCEPT ![save_user(Expired.id_token)] =
                                               Some(to_string(Expired))]
    /\ issued = Expired.refresh_token
    /\ InitCalls({1, 2}, OnePort, SomeRequests)

NextRace ==
    \/ \E p \in Procs : pc[p] = "idle" /\ GetToken(p)
    \/ \E p \in Procs : RefreshExchange(p)
    \/ \E p \in Procs : SaveTokenFile(p)
    \/ \E p \in Procs : SaveTokenHint(p)
    \/ \E p \in Procs : SaveTokenEntry(p)

SpecRace == InitRace /\ [][NextRace]_vars

\* ------------------------------------------------------------------ claims

\* The calls that are get_token.
InGetToken(p) == path[p] \in {"cache", "refresh", "login"}

NoNetwork(p) ==
    /\ calls[p].refresh = 0
    /\ calls[p].browser = 0
    /\ calls[p].capture = 0
    /\ calls[p].exchange = 0

NoLogin(p) ==
    /\ calls[p].browser = 0
    /\ calls[p].capture = 0
    /\ calls[p].exchange = 0

NoWrite(p) == calls[p].hint_writes = 0 /\ calls[p].token_writes = 0

\* C1: when get_token reads a record whose expiry is strictly later than
\* now + 60s, it has returned, Ok, without a refresh exchange, a browser
\* launch, a capture or a code exchange, and its TokenOutput has exactly the
\* record's access_token, id_token and expiry.
C1_CacheHit ==
    \A p \in Procs :
        (InGetToken(p) /\ saved[p] # None
            /\ saved[p][1].token_expiry > t0[p] + Skew)
        => /\ pc[p] = "done"
           /\ ret[p] = "ok"
           /\ NoNetwork(p)
           /\ NoWrite(p)
           /\ out[p] = Some([access_token |-> saved[p][1].access_token,
                             id_token |-> saved[p][1].id_token,
                             token_expiry |-> saved[p][1].token_expiry])

C1_Witness ==
    \E p \in Procs :
        /\ path[p] = "cache"
        /\ pc[p] = "done"
        /\ saved[p] # None
        /\ saved[p][1].token_expiry > t0[p] + Skew
        /\ out[p] # None
        /\ NoNetwork(p)

\* C2: when get_token reads a record with expiry <= now + 60s (the boundary
\* expiry = now + 60s included), it makes exactly one refresh exchange, made
\* once the call has left the point of the exchange, and never a browser
\* launch, a capture or a code exchange, whether the refresh succeeds or
\* fails.
C2_RefreshOnce ==
    \A p \in Procs :
        (InGetToken(p) /\ saved[p] # None
            /\ saved[p][1].token_expiry <= t0[p] + Skew)
        => /\ path[p] = "refresh"
           /\ NoLogin(p)
           /\ calls[p].refresh = (IF pc[p] = "refresh" THEN 0 ELSE 1)
           /\ pc[p] \in {"refresh", "save", "entry", "done"}

C2_Witness ==
    \E p \in Procs :
        /\ path[p] = "refresh"
        /\ pc[p] = "done"
        /\ ret[p] = "err"
        /\ res[p] = None
        /\ saved[p][1].token_expiry = t0[p] + Skew
        /\ calls[p].refresh = 1
        /\ NoLogin(p)

\* C3: when the store read yields no record (nothing stored, no entry under
\* the key, an unreadable store, or an entry that does not decode), get_token
\* takes the login path: the browser, then the capture, then the code
\* exchange, each at most once and all three when it returns Ok, and never a
\* refresh exchange.
C3_LoginWithoutRecord ==
    \A p \in Procs :
        (InGetToken(p) /\ start[p] \in {"empty", "missing", "fault", "corrupt"})
        => /\ path[p] = "login"
           /\ saved[p] = None
           /\ calls[p].refresh = 0
           /\ calls[p].browser = (IF pc[p] = "login" THEN 0 ELSE 1)
           /\ calls[p].capture =
                 (IF pc[p] \in {"login", "capture"} THEN 0 ELSE 1)
           /\ calls[p].exchange <= calls[p].capture
           /\ (pc[p] \in {"save", "entry"} \/ ret[p] = "ok")
                 => calls[p].exchange = 1
           /\ pc[p] = "exchange" => calls[p].exchange = 0

C3_Witness ==
    \E p \in Procs :
        /\ path[p] = "login"
        /\ start[p] = "corrupt"
        /\ pc[p] = "done"
        /\ ret[p] = "ok"
        /\ calls[p].browser = 1
        /\ calls[p].capture = 1
        /\ calls[p].exchange = 1
        /\ calls[p].refresh = 0

\* No call is running.
AllQuiet == \A p \in Procs : Quiet(p)

\* After a successful refresh the stored record holds the response's
\* access_token and id_token, and the response's refresh_token if it has one,
\* otherwise the refresh_token of the record read at the start of the call.
RefreshStoresResponse ==
    \A p \in Procs :
        (path[p] = "refresh" /\ pc[p] = "done" /\ ret[p] = "ok")
        => /\ load_cached_token # None
           /\ load_cached_token[1].access_token = res[p][1].access_token
           /\ load_cached_token[1].id_token = res[p][1].id_token
           /\ load_cached_token[1].refresh_token =
                 (IF res[p][1].refresh_token # None
                  THEN res[p][1].refresh_token[1]
                  ELSE saved[p][1].refresh_token)

\* Between calls, a stored record holds the refresh token the provider issued
\* last.
StoredIsLastIssued ==
    (AllQuiet /\ load_cached_token # None)
    => load_cached_token[1].refresh_token = issued

LoginDone(p) == path[p] = "login" /\ pc[p] = "done" /\ res[p] # None

\* The expiry e is the time of a response with expires_in, received during
\* the call of p, plus expires_in.
ExpiryOfResponse(p, e) ==
    /\ e - res[p][1].expires_in >= t0[p]
    /\ e - res[p][1].expires_in <= now

\* C5: a login whose code-exchange response has no refresh_token returns Ok
\* with the response's access_token, id_token and expiry, writes nothing and
\* leaves the store (token and identity hint) as it was; and a get_token that
\* follows with the store unchanged takes the login path again.
C5_LoginWithoutRefreshToken ==
    \A p \in Procs :
        /\ (LoginDone(p) /\ res[p][1].refresh_token = None)
           => /\ ret[p] = "ok"
              /\ out[p] # None
              /\ out[p][1].access_token = res[p][1].access_token
              /\ out[p][1].id_token = res[p][1].id_token
              /\ ExpiryOfResponse(p, out[p][1].token_expiry)
              /\ NoWrite(p)
              /\ ~dirty[p]
        /\ (InGetToken(p) /\ prev[p] = "login_unsaved") => path[p] = "login"

C5_Witness ==
    \E p \in Procs :
        /\ prev[p] = "login_unsaved"
        /\ LoginDone(p)
        /\ res[p][1].refresh_token = None
        /\ ret[p] = "ok"
        /\ ~dirty[p]

\* C6: when the record read is expired and the refresh exchange fails,
\* get_token returns an error and no TokenOutput, and the store (record and
\* identity hint) is as it was before the call.
C6_FailedRefresh ==
    \A p \in Procs :
        (path[p] = "refresh" /\ pc[p] = "done" /\ res[p] = None)
        => /\ ret[p] = "err"
           /\ out[p] = None
           /\ NoWrite(p)
           /\ ~dirty[p]

C6_Witness ==
    \E p \in Procs :
        /\ path[p] = "refresh"
        /\ pc[p] = "done"
        /\ res[p] = None
        /\ saved[p][1].token_expiry < t0[p]
        /\ ret[p] = "err"
        /\ calls[p].refresh = 1
        /\ load_cached_token = saved[p]

\* The key under which the identity tokens of the provider are stored.
KeyOfResponse(id) == IF id = TokU THEN "u@e.com" ELSE "default"

\* After a login that got a refresh token and returned Ok, the store holds
\* the response's refresh_token, access_token and id_token with the expiry
\* now + expires_in: in the file, or in the keyring under the email of the
\* identity token, with the hint naming that key.
LoginStoresResponse ==
    \A p \in Procs :
        (LoginDone(p) /\ ret[p] = "ok" /\ res[p][1].refresh_token # None)
        => LET r == res[p][1]
               k == KeyOfResponse(r.id_token)
               e == IF override THEN file ELSE keyring[k]
           IN  /\ e # None
               /\ from_str(e[1]) =
                    Some([refresh_token |-> r.refresh_token[1],
                          access_token |-> r.access_token,
                          id_token |-> r.id_token,
                          token_expiry |-> out[p][1].token_expiry])
               /\ ExpiryOfResponse(p, out[p][1].token_expiry)
               /\ ~override => hint = Some(k)

\* A get_token that starts after a login from an empty cache that saved its
\* record, with the store unchanged since and now + 60s before the expiry,
\* returns at once the same TokenOutput without any network call.
SecondCallHitsCache ==
    \A p \in Procs :
        (/\ GetToken(p)
         /\ pc[p] = "done" /\ path[p] = "login" /\ ret[p] = "ok"
         /\ rec[p] # None /\ start[p] = "empty" /\ ~stale[p]
         /\ now + Skew < out[p][1].token_expiry)
        => /\ path'[p] = "cache"
           /\ pc'[p] = "done"
           /\ ret'[p] = "ok"
           /\ out'[p] = out[p]
           /\ calls'[p] = NoCalls

\* C7: from an empty cache, a login that obtains a refresh token leaves the
\* response's tokens with expiry now + expires_in in the store under the
\* email of the identity token, and a further get_token started while
\* now + 60s < that expiry, with no store change in between, returns the
\* same access_token, id_token and expiry with no network call.
C7_LoginThenCacheHit == []LoginStoresResponse /\ [][SecondCallHitsCache]_vars

C7_Witness ==
    \E p \in Procs :
        /\ prev[p] = "first_login_saved"
        /\ path[p] = "cache"
        /\ pc[p] = "done"
        /\ ret[p] = "ok"
        /\ NoNetwork(p)
        /\ ~override
        /\ hint = Some("u@e.com")
        /\ out[p][1].id_token = TokU

C9_OverrideTargetsFileOnly ==
    [][override =>
         /\ keyring' = keyring
         /\ hint' = hint
         /\ \A p \in Procs :
              (DeleteToken(p) /\ ret'[p] = "ok") => load_cached_token' = None
      ]_vars

\* The email claim of an identity token, "default" for a malformed one.
KeyOfToken(id) ==
    CASE id \in {TokU, TokUNoSig} -> "u@e.com"
      [] id = TokV -> "v@e.com"
      [] OTHER -> "default"

\* C10: save_token without the override path writes the hint and the keyring
\* entry under the email claim of the identity token, and under "default" for
\* a token with a wrong segment count, invalid base64url, invalid JSON or no
\* email; it returns an error only when a write has failed.
C10_SaveKey ==
    \A p \in Procs :
        rec[p] # None =>
            LET k == KeyOfToken(rec[p][1].id_token) IN
            /\ calls[p].hint_writes = 1 => hint = Some(k)
            /\ (pc[p] = "done" /\ ret[p] = "ok" /\ calls[p].hint_writes = 1)
                  => keyring[k] = Some(to_string(rec[p][1]))
            /\ (pc[p] = "done" /\ ret[p] = "err") => writeFailed

C10_Witness ==
    \E p \in Procs :
        /\ path[p] = "save"
        /\ pc[p] = "done"
        /\ ret[p] = "ok"
        /\ rec[p][1].id_token = TokBadB64
        /\ hint = Some("default")
        /\ keyring["default"] = Some(to_string(rec[p][1]))

\* The external step at which the get_token of p, now returned, failed:
\* the refresh exchange (call or decoding), the redirect capture, the code
\* exchange (call or decoding), or the store write after an exchange.
FailedAt(p) ==
    CASE path[p] = "refresh" /\ res[p] = None -> "refresh"
      [] path[p] = "login" /\ calls[p].capture = 1 /\ calls[p].exchange = 0 ->
            "capture"
      [] path[p] = "login" /\ calls[p].exchange = 1 /\ res[p] = None ->
            "exchange"
      [] rec[p] # None /\ calls[p].token_writes = 0 -> "write"
      [] OTHER -> "none"

\* What an invocation has done when it failed at the given step.
CallsUpTo(p, step) ==
    CASE step = "refresh" -> calls[p] = [NoCalls EXCEPT !.refresh = 1]
      [] step = "capture" ->
            calls[p] = [NoCalls EXCEPT !.browser = 1, !.capture = 1]
      [] step = "exchange" ->
            calls[p] = [NoCalls EXCEPT !.browser = 1, !.capture = 1,
                                       !.exchange = 1]
      [] OTHER ->
            /\ calls[p].token_writes = 0
            /\ calls[p].hint_writes <= 1
            /\ IF path[p] = "refresh"
               THEN calls[p].refresh = 1 /\ NoLogin(p)
               ELSE /\ calls[p].refresh = 0
                    /\ calls[p].browser = 1
                    /\ calls[p].capture = 1
                    /\ calls[p].exchange = 1

\* C11: a get_token in which an external step failed (refresh exchange,
\* capture, code exchange, decoding, or the store write after an exchange)
\* has returned an error and no TokenOutput, and has done nothing after the
\* failed step: a failed refresh is followed by no login, a failed write by
\* no second write, and the tokens of the exchange are not handed out.
C11_NoRetry ==
    \A p \in Procs :
        (InGetToken(p) /\ pc[p] = "done" /\ FailedAt(p) # "none")
        => /\ ret[p] = "err"
           /\ out[p] = None
           /\ CallsUpTo(p, FailedAt(p))

C11_Witness ==
    \E p \in Procs :
        /\ path[p] = "login"
        /\ pc[p] = "done"
        /\ FailedAt(p) = "write"
        /\ res[p] # None
        /\ res[p][1].refresh_token = Some(1)
        /\ calls[p].hint_writes = 1
        /\ hint = Some("u@e.com")
        /\ keyring["u@e.com"] = None
        /\ ret[p] = "err"

\* The get_token of p has returned from a refresh exchange that failed.
RefreshFailed(p) ==
    path[p] = "refresh" /\ pc[p] = "done" /\ res[p] = None

\* An invocation whose refresh exchange failed returned an error after
\* exactly one refresh attempt and nothing else.
FailedRefreshFails ==
    \A p \in Procs :
        RefreshFailed(p)
        => /\ ret[p] = "err"
           /\ out[p] = None
           /\ calls[p] = [NoCalls EXCEPT !.refresh = 1]

\* The get_token that follows a failed refresh, with the store as the failed
\* one left it, takes the refresh path again, whatever time has passed; it
\* takes the login path only if the store changed in between.
FailedRefreshRepeats ==
    \A p \in Procs :
        (RefreshFailed(p) /\ ret[p] = "err" /\ GetToken(p))
        => /\ ~stale[p] => (path'[p] = "refresh" /\ pc'[p] = "refresh")
           /\ path'[p] = "login" => (stale[p] /\ load_cached_token = None)

\* C12: get_token calls that start with an expired record and whose refresh
\* exchange fails each return an error after exactly one refresh attempt and
\* no login, one after the other for as long as the store is left alone;
\* a later call performs a login only after the stored entry is gone.
C12_RefreshKeepsFailing ==
    []FailedRefreshFails /\ [][FailedRefreshRepeats]_vars

C12_Witness ==
    \E p \in Procs :
        /\ prev[p] = "refresh_failed"
        /\ RefreshFailed(p)
        /\ ret[p] = "err"
        /\ calls[p] = [NoCalls EXCEPT !.refresh = 1]
        /\ now > t0[p]

\* The texts the store holds.
StoredTexts ==
    (IF file = None THEN {} ELSE {file[1]})
        \cup {keyring[k][1] : k \in {u \in Keys : keyring[u] # None}}

\* C13: every record in the store, and every record get_token is about to
\* write, has a refresh token, whether or not the provider's responses
\* carried one.
C13_RefreshTokenPresent ==
    /\ \A text \in StoredTexts :
          from_str(text) # None => from_str(text)[1].refresh_token \in 1..issued
    /\ \A p \in Procs :
          (InGetToken(p) /\ rec[p] # None)
          => rec[p][1].refresh_token \in 1..issued

C13_Witness ==
    \E p \in Procs :
        /\ path[p] = "refresh"
        /\ pc[p] = "done"
        /\ ret[p] = "ok"
        /\ res[p] # None
        /\ res[p][1].refresh_token = None
        /\ ~override
        /\ keyring["default"] # None
        /\ from_str(keyring["default"][1]) # None
        /\ from_str(keyring["default"][1])[1].refresh_token = 1
        /\ saved[p][1].refresh_token = 1

\* Every value get_or_init_port has returned in a process is the one port
\* the process holds.
PortReturnedOnce ==
    \A p \in Procs :
        /\ Cardinality(returned[p]) <= 1
        /\ port[p] = None => returned[p] = {}
        /\ port[p] # None => returned[p] = {port[p][1]}

\* Once chosen, the port of a process does not change.
PortKept == \A p \in Procs : port[p] # None => port'[p] = port[p]

\* The capture listens on the port of the redirect URI.
ListensOnRedirectPort ==
    \A p \in Procs :
        /\ listening[p] # None => listening[p] = redirect_uri[p]
        /\ (path[p] = "login" /\ calls[p].capture = 1) => listening[p] # None
        /\ (path[p] = "login" /\ calls[p].browser = 1)
              => redirect_uri[p] = port[p]
        /\ form[p] # None => Some(form[p][1].redirect_uri) = listening[p]

\* C14: within a process get_or_init_port chooses the port once, whichever
\* caller is first, and returns that port to every caller ever after; in a
\* login the port of the redirect URI (authorization URL, code exchange) is
\* the port the capture listens on.
C14_PortOnce ==
    /\ [](PortReturnedOnce /\ ListensOnRedirectPort)
    /\ [][PortKept]_vars

C14_Witness ==
    \E p \in Procs :
        /\ prev[p] = "login_unsaved"
        /\ path[p] = "login"
        /\ calls[p].exchange = 1
        /\ port[p] = Some(8002)
        /\ listening[p] = Some(8002)
        /\ redirect_uri[p] = Some(8002)
        /\ returned[p] = {8002}
        /\ form[p] # None
        /\ form[p][1].redirect_uri = 8002

\* The query string of a URL: what follows the first "?".
QueryString(url) ==
    IF \A i \in 1..Len(url) : url[i] # "?"
    THEN << >>
    ELSE LET k == CHOOSE i \in 1..Len(url) :
                      url[i] = "?" /\ \A j \in 1..(i - 1) : url[j] # "?"
         IN  SubSeq(url, k + 1, Len(url))

\* The values of the code parameters of a URL's query string.
QueryCodes(url) ==
    LET pieces == SplitOn(QueryString(url), "&") IN
    { Param(pieces[i][1])[2] :
        i \in { j \in 1..Len(pieces) :
                  Len(pieces[j]) >= 1 /\ Param(pieces[j][1])[1] = "code" } }

\* The login of p received a request and got its code.
CaptureReturnsCode(p) ==
    /\ code[p] # None
    /\ code[p][1] \in QueryCodes(request[p][1].url)
    /\ form[p] # None => form[p][1].code = code[p][1]
    /\ calls[p].exchange = 1 => form[p] # None

\* The login of p received a request and failed at the capture.
CaptureFails(p) ==
    /\ code[p] = None
    /\ pc[p] = "done"
    /\ ret[p] = "err"
    /\ out[p] = None
    /\ calls[p].exchange = 0
    /\ form[p] = None
    /\ NoWrite(p)

HintFirst(p) ==
    /\ calls[p].token_writes <= calls[p].hint_writes
    /\ (pc[p] = "done" /\ ret[p] = "ok" /\ ~stale[p])
          => /\ calls[p].hint_writes = 1
             /\ hint = Some(KeyOfToken(rec[p][1].id_token))

\* C16 as stated: every save writes the hint before the token payload, and
\* after a successful save the hint is the email (or "default") derived from
\* the record just saved.
C16_Original == \A p \in Procs : rec[p] # None => HintFirst(p)

\* C16 as amended: every save without the override path writes the hint
\* before the token payload, and after it succeeded the hint is the email (or
\* "default") derived from the record just saved; a save with the override
\* path writes the file only and leaves the hint alone.
C16_HintBeforePayload ==
    \A p \in Procs :
        rec[p] # None
        => /\ ~override => HintFirst(p)
           /\ override => calls[p].hint_writes = 0

C16_Witness ==
    \E p \in Procs :
        /\ path[p] = "save"
        /\ pc[p] = "done"
        /\ ret[p] = "ok"
        /\ ~override
        /\ rec[p][1].id_token = TokNoEmail
        /\ calls[p].hint_writes = 1
        /\ calls[p].token_writes = 1
        /\ hint = Some("default")
        /\ keyring["v@e.com"] # None

\* The code exchange and the return of a login come after a request; the
\* cache-hit and refresh paths receive none.
RequestBeforeExchange ==
    \A p \in Procs :
        /\ (path[p] = "login" /\ (calls[p].exchange = 1 \/ pc[p] = "done"))
              => request[p] # None
        /\ pc[p] = "exchange" => request[p] # None
        /\ path[p] \in {"cache", "refresh"}
              => (request[p] = None /\ calls[p].capture = 0)

\* A login leaves the wait for the redirect only by receiving a request.
WaitsForRequest ==
    \A p \in Procs :
        (pc[p] = "capture" /\ pc'[p] # "capture")
        => (request[p] = None /\ request'[p] # None)

\* C17: in a login the code exchange never precedes the receipt of a request
\* and the wait for it ends only with a request (no timeout); once a request
\* has arrived the login returns, given that the token endpoint replies; a
\* get_token on the cache-hit or the refresh path returns without any
\* request.
C17_UnboundedWait ==
    /\ []RequestBeforeExchange
    /\ [][WaitsForRequest]_vars
    /\ \A p \in Procs :
          (path[p] = "login" /\ request[p] # None) ~> (pc[p] = "done")
    /\ \A p \in Procs :
          (path[p] \in {"cache", "refresh"}) ~> (pc[p] = "done")

C17_Witness ==
    \E p \in Procs :
        /\ path[p] = "login"
        /\ pc[p] = "done"
        /\ ret[p] = "ok"
        /\ request[p] # None
        /\ request[p][1].io = "ok"
        /\ calls[p].exchange = 1
        /\ prev[p] = "login_unsaved"

\* Process p completes the store write of its refresh in this step.
WritesRefresh(p) ==
    /\ path[p] = "refresh"
    /\ pc[p] \in {"save", "entry"}
    /\ pc'[p] = "done"
    /\ ret'[p] = "ok"

\* The record a load finds after the step is the one p built from its own
\* response and from the record p read when its call started.
LoadsRecordOf(p) ==
    /\ load_cached_token' # None
    /\ load_cached_token'[1].access_token = res[p][1].access_token
    /\ load_cached_token'[1].id_token = res[p][1].id_token
    /\ load_cached_token'[1].refresh_token =
          (IF res[p][1].refresh_token # None
           THEN res[p][1].refresh_token[1]
           ELSE saved[p][1].refresh_token)

\* Nothing orders the calls of two processes: whenever a process completes
\* the write of its refresh, the store holds its record, whatever another
\* process has written since the first one read the store.
LastWriteWins ==
    \A p \in Procs :
        (WritesRefresh(p) /\ (override \/ hint = Some(KeyOfToken(rec[p][1].id_token))))
        => LoadsRecordOf(p)

\* C18: two processes that call get_token against the same store are not
\* kept apart: each refresh that completes its write leaves its own record
\* in the store, so of two refreshes of the same expired record the one that
\* writes last decides what is stored, and what the other one obtained
\* (a rotated refresh token included) is no longer in the store.
C18_RefreshRace == [][LastWriteWins]_vars

\* Both processes read the same expired record and refreshed it; the first
\* was given the rotated refresh token 2, the second wrote last and put the
\* old refresh token 1 back.
C18_Witness ==
    /\ \A p \in {1, 2} :
          /\ path[p] = "refresh"
          /\ pc[p] = "done"
          /\ ret[p] = "ok"
          /\ saved[p] = Some(Expired)
          /\ calls[p].refresh = 1
          /\ calls[p].token_writes = 1
    /\ res[1][1].refresh_token = Some(2)
    /\ res[2][1].refresh_token = None
    /\ issued = 2
    /\ load_cached_token = Some(rec[2][1])
    /\ load_cached_token[1].refresh_token = 1
    /\ \A text \in StoredTexts : from_str(text)[1].refresh_token # 2

\* C19 as stated: when save_token has returned an error, a load returns what
\* a load returned before the save, also when the hint was written and the
\* write of the keyring entry then failed.
C19_SaveAllOrNothing ==
    \A p \in Procs :
        (path[p] = "save" /\ pc[p] = "done" /\ ret[p] = "err" /\ ~stale[p])
        => load_cached_token = before[p]

\* The get_token of p returns Ok in this step.
ReturnsOk(p) ==
    /\ pc[p] # "done" \/ GetToken(p)
    /\ pc'[p] = "done"
    /\ ret'[p] = "ok"
    /\ path'[p] \in {"cache", "refresh", "login"}

\* C20 as stated: whenever get_token returns Ok, on the cache-hit, refresh or
\* login path and whatever expires_in the provider sent, the expiry of its
\* TokenOutput is strictly later than the time of the return, and a record
\* it persisted has the same expiry.
C20_NoExpiredOutput ==
    [][\A p \in Procs :
         ReturnsOk(p)
         => /\ out'[p][1].token_expiry > now'
            /\ rec'[p] # None
                  => rec'[p][1].token_expiry = out'[p][1].token_expiry
      ]_vars

====
